---------------------------- MODULE Spec2Model ----------------------------
(***************************************************************************)
(* A model of agl/ed25519: the big.Int implementation of Ed25519           *)
(* (GenerateKey, Sign, Verify, decodePoint, encodePoint, pointAdd,         *)
(* scalarMult) and the constant-time ScalarMult / DoubleScalarMult of the  *)
(* edwards25519 package.                                                   *)
(*                                                                         *)
(* SCALING.  TLC has 32-bit integers, so the field cannot be 2^255 - 19.   *)
(* The model keeps every algorithm and replaces the curve by one of the    *)
(* same shape over the prime 2^15 - 19:                                    *)
(*     p = 2^15 - 19 (prime, p = 5 mod 8, as 2^255 - 19),                  *)
(*     -x^2 + y^2 = 1 + d x^2 y^2 with d = 688 a non-square,               *)
(*     group order 8 * l with l = 2^12 + 3 prime (as l = 2^252 + ...),     *)
(*     base point (9256, 4/5) of order l, x even (as in Ed25519).          *)
(* A point encoding is therefore 2 bytes (15 bits of y, then the sign bit  *)
(* in bit 7 of the last byte) where the source has 32 bytes, a digest is   *)
(* 4 bytes where SHA-512 gives 64, and a key-pair scalar is 2 bytes.  The  *)
(* scalars of the edwards25519 package keep their 32 bytes.                *)
(*                                                                         *)
(* big.Int is unbounded; where the source multiplies unreduced values and  *)
(* reduces later with Mod (Euclidean, never negative), the model reduces   *)
(* the factors first so that no product leaves 32 bits.  Values the source *)
(* returns unreduced (x = p from decodePoint, y >= p) are kept unreduced.  *)
(***************************************************************************)
EXTENDS Integers, Sequences, FiniteSets, TLC

-----------------------------------------------------------------------------
(* Sizes (scaled) and the curve constants set by init(). *)

PublicKeySize == 2
PrivateKeySize == 4
SignatureSize == 4
DigestSize == 4

p25519 == 32749
n25521 == 32747
n2523 == 4093
sqrtm1 == 15645
order == 4099
d == 688
k == 1376
bX == 9256
bY == 26200
bigOne == 1

Nil == <<>>

-----------------------------------------------------------------------------
(* Bytes and math/big. *)

Byte == 0..255

RECURSIVE BitAnd(_, _)
BitAnd(a, b) ==
    IF a = 0 \/ b = 0 THEN 0
    ELSE (IF a % 2 = 1 /\ b % 2 = 1 THEN 1 ELSE 0) + 2 * BitAnd(a \div 2, b \div 2)

RECURSIVE BitOr(_, _)
BitOr(a, b) ==
    IF a = 0 THEN b
    ELSE IF b = 0 THEN a
    ELSE (IF a % 2 = 1 \/ b % 2 = 1 THEN 1 ELSE 0) + 2 * BitOr(a \div 2, b \div 2)

RECURSIVE BitXor(_, _)
BitXor(a, b) ==
    IF a = 0 THEN b
    ELSE IF b = 0 THEN a
    ELSE (IF a % 2 # b % 2 THEN 1 ELSE 0) + 2 * BitXor(a \div 2, b \div 2)

(* x.Bit(0) *)
Bit0(x) == x % 2

(* The sequence s reversed: the byte-order loops of the source. *)
Reverse(s) == [i \in 1..Len(s) |-> s[Len(s) + 1 - i]]

(* new(big.Int).SetBytes(b): b is big-endian. *)
RECURSIVE SetBytes(_)
SetBytes(b) ==
    IF b = <<>> THEN 0
    ELSE 256 * SetBytes(SubSeq(b, 1, Len(b) - 1)) + b[Len(b)]

(* SetBytes(b) followed by Mod(m), without leaving 32 bits. *)
RECURSIVE SetBytesMod(_, _)
SetBytesMod(b, m) ==
    IF b = <<>> THEN 0
    ELSE (256 * SetBytesMod(SubSeq(b, 1, Len(b) - 1), m) + b[Len(b)]) % m

(* x.Bytes(): the big-endian bytes of x with no leading zero; empty for 0. *)
RECURSIVE Bytes(_)
Bytes(x) ==
    IF x = 0 THEN <<>> ELSE Append(Bytes(x \div 256), x % 256)

(* a^r mod m for r < 16, a < m. *)
ExpDigit(a, r, m) ==
    LET a2 == (a * a) % m
        a4 == (a2 * a2) % m
        a8 == (a4 * a4) % m
        f1 == IF r % 2 = 1 THEN a ELSE 1 % m
        f2 == IF (r \div 2) % 2 = 1 THEN (f1 * a2) % m ELSE f1
        f4 == IF (r \div 4) % 2 = 1 THEN (f2 * a4) % m ELSE f2
    IN  IF (r \div 8) % 2 = 1 THEN (f4 * a8) % m ELSE f4

(* z.Exp(a, e, m), four bits of the exponent at a time:                    *)
(* a^e = (a^(e div 16))^16 * a^(e mod 16).                                 *)
RECURSIVE Exp(_, _, _)
Exp(a, e, m) ==
    IF e = 0 THEN 1 % m
    ELSE LET h == Exp(a, e \div 16, m)
         IN  IF h = h
             THEN LET h2 == (h * h) % m
                      h4 == (h2 * h2) % m
                      h8 == (h4 * h4) % m
                  IN  (((h8 * h8) % m) * ExpDigit(a % m, e % 16, m)) % m
             ELSE h

(* Mul followed (at once or later) by Mod(p25519). *)
MulP(a, b) == ((a % p25519) * (b % p25519)) % p25519

-----------------------------------------------------------------------------
(* The arbitrary-precision curve arithmetic. *)

invert(a) == Exp(a, n25521, p25519)

toAffine(fe) ==
    LET zInv == invert(fe.z)
    IN  [x |-> MulP(zInv, fe.x), y |-> MulP(zInv, fe.y)]

pointAdd(a, b) ==
    LET A == MulP(a.y - a.x, b.y - b.x)
        B == MulP(a.y + a.x, b.y + b.x)
        C == MulP(MulP(a.t, b.t), k)
        D == (2 * MulP(a.z, b.z)) % p25519
        E == (B - A) % p25519
        F == (D - C) % p25519
        G == (D + C) % p25519
        H == (A + B) % p25519
    IN  [x |-> MulP(E, F), y |-> MulP(G, H), t |-> MulP(E, H), z |-> MulP(F, G)]

(* The inner loop of scalarMult over the bits of one byte, high bit first.  *)
(* (TLC evaluates LET lazily: the test n3 = n3 has n3 computed before the  *)
(* next iteration starts, which keeps the evaluation stack short.)         *)
RECURSIVE scalarMultBits(_, _, _, _)
scalarMultBits(n, p, x, bit) ==
    IF bit = 8 THEN n
    ELSE LET n2 == pointAdd(n, n)
             n3 == IF BitAnd(x, 128) # 0 THEN pointAdd(n2, p) ELSE n2
             x2 == (2 * x) % 256
         IN  IF n3 = n3 /\ x2 = x2
             THEN scalarMultBits(n3, p, x2, bit + 1)
             ELSE n3

RECURSIVE scalarMultBytes(_, _, _)
scalarMultBytes(n, p, scalarBytes) ==
    IF scalarBytes = <<>> THEN n
    ELSE scalarMultBytes(scalarMultBits(n, p, Head(scalarBytes), 0), p,
                         Tail(scalarBytes))

scalarMult(scalar, px, py) ==
    LET p == [x |-> px, y |-> py, z |-> 1, t |-> px * py]
        n == [x |-> 0, y |-> 1, z |-> 1, t |-> 0]
    IN  scalarMultBytes(n, p, Bytes(scalar))

(* scalar.Bytes() of a scalar wider than the model's integers, given by    *)
(* its big-endian bytes: the leading zero bytes are dropped.               *)
RECURSIVE BytesOf(_)
BytesOf(bigEndian) ==
    IF bigEndian = <<>> THEN <<>>
    ELSE IF Head(bigEndian) = 0 THEN BytesOf(Tail(bigEndian))
    ELSE bigEndian

(* out is a fresh array of zeroes at every call. *)
encodePoint(px, py) ==
    LET b == Bytes(py)
        out == [i \in 1..PublicKeySize |-> IF i <= Len(b) THEN b[Len(b) + 1 - i] ELSE 0]
    IN  IF Bit0(px) = 1
        THEN [out EXCEPT ![PublicKeySize] = BitOr(@, 128)]
        ELSE out

scalarFrom64Bytes(v) == SetBytesMod(Reverse(v), order)

scalarFrom32Bytes(v) == SetBytes(Reverse(v)) % order

(* encodeScalar without the reversal of the bytes. *)
encodeScalarBigEndian(s) ==
    LET b == Bytes(s)
    IN  [i \in 1..PublicKeySize |-> IF i <= Len(b) THEN b[i] ELSE 0]

(* out is a fresh array of zeroes. *)
encodeScalar(s) ==
    LET b == Bytes(s)
    IN  [i \in 1..PublicKeySize |-> IF i <= Len(b) THEN b[Len(b) + 1 - i] ELSE 0]

(* decodePoint returning the root it found, whatever the sign bit asks. *)
decodePointAnySign(in) ==
    LET bigEndian == [Reverse(in) EXCEPT ![1] = BitAnd(@, 127)]
        y == SetBytes(bigEndian)
        u0 == (y * y) % p25519
        u == (u0 - bigOne) % p25519
        v == (u0 * d + bigOne) % p25519
        v3 == MulP(MulP(v, v), v)
        v7 == MulP(MulP(MulP(v, v), MulP(v, v)), v3)
        b0 == MulP(MulP(Exp(MulP(v7, u), n2523, p25519), v3), u)
        check0 == MulP(MulP(b0, b0), v)
        b1 == IF check0 # u THEN MulP(b0, sqrtm1) ELSE b0
        check1 == IF check0 # u THEN MulP(MulP(b1, b1), v) ELSE check0
    IN  IF check1 # u
        THEN [x |-> Nil, y |-> Nil, ok |-> FALSE]
        ELSE [x |-> b1, y |-> y, ok |-> TRUE]

(* decodePoint without the second comparison of check with u: whatever the *)
(* candidates are, a point is returned.                                    *)
decodePointWithoutCheck(in) ==
    LET bigEndian == [Reverse(in) EXCEPT ![1] = BitAnd(@, 127)]
        y == SetBytes(bigEndian)
        u0 == (y * y) % p25519
        u == (u0 - bigOne) % p25519
        v == (u0 * d + bigOne) % p25519
        v3 == MulP(MulP(v, v), v)
        v7 == MulP(MulP(MulP(v, v), MulP(v, v)), v3)
        b0 == MulP(MulP(Exp(MulP(v7, u), n2523, p25519), v3), u)
        check0 == MulP(MulP(b0, b0), v)
        b1 == IF check0 # u THEN MulP(b0, sqrtm1) ELSE b0
        sign == in[PublicKeySize] \div 128
        b2 == IF Bit0(b1) # sign THEN (0 - b1) + p25519 ELSE b1
    IN  [x |-> b2, y |-> y, ok |-> TRUE]

decodePoint(in) ==
    LET bigEndian == [Reverse(in) EXCEPT ![1] = BitAnd(@, 127)]
        y == SetBytes(bigEndian)
        u0 == (y * y) % p25519
        u == (u0 - bigOne) % p25519
        v == (u0 * d + bigOne) % p25519
        v3 == MulP(MulP(v, v), v)
        v7 == MulP(MulP(MulP(v, v), MulP(v, v)), v3)
        b0 == MulP(MulP(Exp(MulP(v7, u), n2523, p25519), v3), u)
        check0 == MulP(MulP(b0, b0), v)
        b1 == IF check0 # u THEN MulP(b0, sqrtm1) ELSE b0
        check1 == IF check0 # u THEN MulP(MulP(b1, b1), v) ELSE check0
        sign == in[PublicKeySize] \div 128
        b2 == IF Bit0(b1) # sign THEN (0 - b1) + p25519 ELSE b1
    IN  IF check1 # u
        THEN [x |-> Nil, y |-> Nil, ok |-> FALSE]
        ELSE [x |-> b2, y |-> y, ok |-> TRUE]


-----------------------------------------------------------------------------
(* Package edwards25519.  A FieldElement is modelled by its value mod p    *)
(* (the limbs are a representation of it); the group elements are records  *)
(* of field elements.  The field and group primitives are described in     *)
(* sections 4.1 to 4.3 of the design; ScalarMult, DoubleScalarMult and the *)
(* conditional move are the source's.                                      *)

ScalarLen == 32

FeAdd(f, g) == (f + g) % p25519

FeSub(f, g) == (f - g) % p25519

FeMul(f, g) == (f * g) % p25519

FeSquare(f) == (f * f) % p25519

FeInvert(z) == Exp(z, p25519 - 2, p25519)

(* CMOVQEQ keeps f when b = 0; any other b stores g. *)
FeCMove(f, g, b) == IF b = 0 THEN f ELSE g

(* The identity in extended coordinates. *)
Zero == [X |-> 0, Y |-> 1, Z |-> 1, T |-> 0]

(* Extended -> Cached: (Y+X, Y-X, Z, 2dT). *)
ToCached(p) ==
    [yPlusX |-> FeAdd(p.Y, p.X), yMinusX |-> FeSub(p.Y, p.X),
     Z |-> p.Z, T2d |-> FeMul(p.T, k)]

(* Completed -> Extended: (X*T, Y*Z, Z*T, X*Y). *)
ToExtended(c) ==
    [X |-> FeMul(c.X, c.T), Y |-> FeMul(c.Y, c.Z),
     Z |-> FeMul(c.Z, c.T), T |-> FeMul(c.X, c.Y)]

(* Extended -> Projective: drop T. *)
ToProjective(p) == [X |-> p.X, Y |-> p.Y, Z |-> p.Z]

(* Extended + Cached -> Completed.  The completed element (E, H, G, F)     *)
(* converts to the extended (E*F, G*H, F*G, E*H).                          *)
geAdd(p, q) ==
    LET A == FeMul(FeSub(p.Y, p.X), q.yMinusX)
        B == FeMul(FeAdd(p.Y, p.X), q.yPlusX)
        C == FeMul(p.T, q.T2d)
        D == FeMul(2, FeMul(p.Z, q.Z))
        E == FeSub(B, A)
        F == FeSub(D, C)
        G == FeAdd(D, C)
        H == FeAdd(B, A)
    IN  [X |-> E, Y |-> H, Z |-> G, T |-> F]

(* Doubling, dbl-2008-hwcd with a = -1; it does not read T. *)
Double(p) ==
    LET A == FeSquare(p.X)
        B == FeSquare(p.Y)
        C == FeMul(2, FeSquare(p.Z))
        D == FeSub(0, A)
        E == FeSub(FeSub(FeSquare(FeAdd(p.X, p.Y)), A), B)
        G == FeAdd(D, B)
        F == FeSub(G, C)
        H == FeSub(D, B)
    IN  [X |-> E, Y |-> H, Z |-> G, T |-> F]

(* The affine point of an extended element, as the tests compare points. *)
toBasicPoint(ge) ==
    LET q == ToProjective(ge)
        recip == FeInvert(q.Z)
    IN  [x |-> FeMul(q.X, recip), y |-> FeMul(q.Y, recip)]

(* A conditional move that leaves the coordinate T out. *)
ExtendedGroupElementCMoveWithoutT(t, u, b) ==
    [X |-> FeCMove(t.X, u.X, b), Y |-> FeCMove(t.Y, u.Y, b),
     Z |-> FeCMove(t.Z, u.Z, b), T |-> t.T]

ExtendedGroupElementCMove(t, u, b) ==
    [X |-> FeCMove(t.X, u.X, b), Y |-> FeCMove(t.Y, u.Y, b),
     Z |-> FeCMove(t.Z, u.Z, b), T |-> FeCMove(t.T, u.T, b)]

(* The two elements after ExtendedGroupElementCMove(&t, &u, b): FeCMove    *)
(* loads the words of g and stores through f only.                         *)
CMoveOperands(t, u, b) == [t |-> ExtendedGroupElementCMove(t, u, b), u |-> u]

(* r = p - q: the addition with Y+X and Y-X of q exchanged and 2dT negated. *)
PointSub(p, q) ==
    geAdd(p, [yPlusX |-> q.yMinusX, yMinusX |-> q.yPlusX, Z |-> q.Z,
              T2d |-> FeSub(0, q.T2d)])

PointAdd(p, q) == geAdd(p, q)

(* int32((byte >> (bitNum - 1)) & 1): the bits of a byte, high bit first. *)
SelectorBitHighFirst(byte, bitNum) == (byte \div (2 ^ (bitNum - 1))) % 2

(* int32((byte >> (8 - bitNum)) & 1) *)
SelectorBit(byte, bitNum) == (byte \div (2 ^ (8 - bitNum))) % 2

(* One pass of ScalarMult's loop that leaves the addition out when the     *)
(* selector is 0.                                                          *)
ScalarMultBodyBranching(out, tmpP, byte, bitNum) ==
    LET b == SelectorBit(byte, bitNum)
        tmpPC == ToCached(tmpP)
        tmpOut == geAdd(out, tmpPC)
        tmpOutE == ToExtended(tmpOut)
        tmpPComp == Double(tmpP)
    IN  [out |-> IF b = 1 THEN tmpOutE ELSE out,
         tmpP |-> ToExtended(tmpPComp),
         ops |-> IF b = 1 THEN <<"geAdd", "CMove", "Double">> ELSE <<"Double">>,
         flags |-> IF b = 1 THEN <<b>> ELSE <<>>]

(* One pass of ScalarMult's inner loop: the new out and tmpP, the group    *)
(* operations it executes, in order, and the selector it hands to the      *)
(* conditional move.                                                       *)
ScalarMultBody(out, tmpP, byte, bitNum) ==
    LET tmpPC == ToCached(tmpP)
        tmpOut == geAdd(out, tmpPC)
        tmpOutE == ToExtended(tmpOut)
        b == SelectorBit(byte, bitNum)
        tmpPComp == Double(tmpP)
    IN  [out |-> ExtendedGroupElementCMove(out, tmpOutE, b),
         tmpP |-> ToExtended(tmpPComp),
         ops |-> <<"geAdd", "CMove", "Double">>,
         flags |-> <<b>>]

(* The end of DoubleScalarMult without the addition of the accumulators. *)
CombineDropped(r1, r2) == r1

(* The end of DoubleScalarMult: r = r1 + r2. *)
Combine(r1, r2) == ToExtended(geAdd(r1, ToCached(r2)))

-----------------------------------------------------------------------------
(* The fixed-base and the variable-time multiplications, after section 4.4 *)
(* of the design.                                                          *)

(* The 64 nibbles of a 32-byte scalar, low nibble first. *)
Nibbles(a) ==
    [i \in 1..(2 * ScalarLen) |->
        IF i % 2 = 1 THEN a[(i + 1) \div 2] % 16 ELSE a[i \div 2] \div 16]

(* The recoding into signed digits: every digit but the last is brought    *)
(* into [-8, 8) and hands a carry to the next; the last takes the final    *)
(* carry.  s holds the digits made so far and the carry.  (The ranges are  *)
(* split in halves, here and below, to keep TLC's evaluation stack short.) *)
RecodeDigit(s, e, i) ==
    LET v == e[i] + s.carry
        c == IF i = Len(e) THEN 0 ELSE (v + 8) \div 16
    IN  [digits |-> Append(s.digits, v - 16 * c), carry |-> c]

RECURSIVE RecodeRange(_, _, _, _)
RecodeRange(s, e, lo, hi) ==
    IF lo = hi THEN RecodeDigit(s, e, lo)
    ELSE LET mid == (lo + hi) \div 2
             s1 == RecodeRange(s, e, lo, mid)
         IN  IF s1 = s1 THEN RecodeRange(s1, e, mid + 1, hi) ELSE s1

SignedDigits(e) == RecodeRange([digits |-> <<>>, carry |-> 0], e, 1, Len(e)).digits

(* A precomputed point (y+x, y-x, 2dxy) as the cached element with Z = 1. *)
Precomputed(x, y) ==
    [yPlusX |-> FeAdd(y, x), yMinusX |-> FeSub(y, x), Z |-> 1,
     T2d |-> FeMul(FeMul(x, y), k)]

PrecomputedZero == [yPlusX |-> 1, yMinusX |-> 1, Z |-> 1, T2d |-> 0]

CachedCMove(t, u, b) ==
    [yPlusX |-> FeCMove(t.yPlusX, u.yPlusX, b),
     yMinusX |-> FeCMove(t.yMinusX, u.yMinusX, b),
     Z |-> FeCMove(t.Z, u.Z, b), T2d |-> FeCMove(t.T2d, u.T2d, b)]

CachedNeg(t) ==
    [yPlusX |-> t.yMinusX, yMinusX |-> t.yPlusX, Z |-> t.Z, T2d |-> FeSub(0, t.T2d)]

(* The multiple m * B of the base point, precomputed. *)
BaseMultiple(m) ==
    LET n == scalarMult(m % order, bX, bY)
        a == toAffine(n)
    IN  IF n = n /\ a = a THEN Precomputed(a.x, a.y) ELSE PrecomputedZero

(* Entry j (1..8) of block pos (0..31) of the table: j * 256^pos * B. *)
BaseTable(pos, j) ==
    LET m == (j * Exp(256, pos, order)) % order
    IN  IF m = m THEN BaseMultiple(m) ELSE PrecomputedZero

(* The lookup: every entry of the block is scanned and the one whose index *)
(* is |b| is kept; the sign is applied by the conditional negation.  (The  *)
(* eight passes are written out, each computed before the next starts.)    *)
ScanEntry(t, pos, babs, j) ==
    LET u == BaseTable(pos, j)
    IN  IF u = u THEN CachedCMove(t, u, IF babs = j THEN 1 ELSE 0) ELSE t

ScanBlock(pos, babs) ==
    LET t1 == ScanEntry(PrecomputedZero, pos, babs, 1)
        t2 == ScanEntry(t1, pos, babs, 2)
        t3 == ScanEntry(t2, pos, babs, 3)
        t4 == ScanEntry(t3, pos, babs, 4)
        t5 == ScanEntry(t4, pos, babs, 5)
        t6 == ScanEntry(t5, pos, babs, 6)
        t7 == ScanEntry(t6, pos, babs, 7)
        t8 == ScanEntry(t7, pos, babs, 8)
    IN  IF /\ t1 = t1
           /\ t2 = t2
           /\ t3 = t3
           /\ t4 = t4
           /\ t5 = t5
           /\ t6 = t6
           /\ t7 = t7
        THEN t8
        ELSE t1

SelectPoint(pos, b) ==
    LET bnegative == IF b < 0 THEN 1 ELSE 0
        babs == IF b < 0 THEN 0 - b ELSE b
        t == ScanBlock(pos, babs)
    IN  IF t = t THEN CachedCMove(t, CachedNeg(t), bnegative) ELSE t

(* h plus the selected points of the digits lo, lo + 2, ..., hi. *)
RECURSIVE AddDigits(_, _, _, _)
AddDigits(h, e, lo, hi) ==
    IF lo = hi
    THEN LET q == SelectPoint((lo - 1) \div 2, e[lo])
         IN  IF q = q THEN ToExtended(geAdd(h, q)) ELSE h
    ELSE LET mid == lo + 2 * ((hi - lo) \div 4)
             h1 == AddDigits(h, e, lo, mid)
         IN  IF h1 = h1 THEN AddDigits(h1, e, mid + 2, hi) ELSE h1

GeScalarMultBase(a) ==
    LET e == SignedDigits(Nibbles(a))
        odd == AddDigits(Zero, e, 2, Len(e))
        h16 == ToExtended(Double(ToExtended(Double(ToExtended(Double(
                   ToExtended(Double(odd))))))))
    IN  IF e = e /\ odd = odd /\ h16 = h16
        THEN AddDigits(h16, e, 1, Len(e) - 1)
        ELSE h16

(* The 256 bits of a scalar, low bit first. *)
ScalarBits(a) ==
    [i \in 1..(8 * ScalarLen) |-> (a[((i - 1) \div 8) + 1] \div (2 ^ ((i - 1) % 8))) % 2]

BitAt(bits, i) == IF i <= Len(bits) THEN bits[i] ELSE 0

(* The bits i + j, ..., i + w - 1 as the number they spell at bit j. *)
RECURSIVE WindowValue(_, _, _, _)
WindowValue(bits, i, w, j) ==
    IF j = w THEN 0
    ELSE BitAt(bits, i + j) * (2 ^ j) + WindowValue(bits, i, w, j + 1)

(* The sliding-window non-adjacent form of width w: odd digits below       *)
(* 2^(w-1) in absolute value, each followed by at least w - 1 zero digits. *)
(* s holds the digits made so far, the carry into position i, and how many *)
(* positions of the current window are still to be skipped.                *)
SlideDigit(s, bits, w, i) ==
    IF s.skip > 0
    THEN [digits |-> Append(s.digits, 0), carry |-> s.carry, skip |-> s.skip - 1]
    ELSE IF (BitAt(bits, i) + s.carry) % 2 = 0
    THEN [digits |-> Append(s.digits, 0),
          carry |-> (BitAt(bits, i) + s.carry) \div 2, skip |-> 0]
    ELSE LET v == 1 + WindowValue(bits, i, w, 1)
         IN  IF v < 2 ^ (w - 1)
             THEN [digits |-> Append(s.digits, v), carry |-> 0, skip |-> w - 1]
             ELSE [digits |-> Append(s.digits, v - 2 ^ w), carry |-> 1, skip |-> w - 1]

RECURSIVE SlideRange(_, _, _, _, _)
SlideRange(s, bits, w, lo, hi) ==
    IF lo = hi THEN SlideDigit(s, bits, w, lo)
    ELSE LET mid == (lo + hi) \div 2
             s1 == SlideRange(s, bits, w, lo, mid)
         IN  IF s1 = s1 THEN SlideRange(s1, bits, w, mid + 1, hi) ELSE s1

SlidingNAF(bits, w) ==
    SlideRange([digits |-> <<>>, carry |-> 0, skip |-> 0], bits, w, 1, Len(bits) + w).digits

DigitAt(digits, i) == IF i <= Len(digits) THEN digits[i] ELSE 0

(* m * A for odd m, from A and 2A, as the table of odd multiples holds it. *)
RECURSIVE OddMultiple(_, _)
OddMultiple(A, m) ==
    IF m = 1 THEN A
    ELSE LET less == OddMultiple(A, m - 2)
         IN  IF less = less
             THEN ToExtended(geAdd(less, ToCached(ToExtended(Double(A)))))
             ELSE less

(* One step of the scan: double, then add or subtract the multiples the    *)
(* two digits at position i name; zero digits are skipped.                 *)
VartimeStep(h, A, aslide, bslide, i) ==
    LET t == ToExtended(Double(h))
        da == DigitAt(aslide, i)
        db == DigitAt(bslide, i)
        Ai == IF da > 0 THEN ToCached(OddMultiple(A, da))
              ELSE CachedNeg(ToCached(OddMultiple(A, 0 - da)))
        u == IF da # 0 /\ Ai = Ai THEN ToExtended(geAdd(t, Ai)) ELSE t
        Bi == IF db > 0 THEN BaseMultiple(db) ELSE CachedNeg(BaseMultiple(0 - db))
    IN  IF t # t \/ u # u THEN u
        ELSE IF db # 0 /\ Bi = Bi THEN ToExtended(geAdd(u, Bi))
        ELSE u

(* The scan from position hi down to position lo. *)
RECURSIVE VartimeScan(_, _, _, _, _, _)
VartimeScan(h, A, aslide, bslide, hi, lo) ==
    IF hi < lo THEN h
    ELSE IF hi = lo THEN VartimeStep(h, A, aslide, bslide, hi)
    ELSE LET mid == (hi + lo + 1) \div 2
             h1 == VartimeScan(h, A, aslide, bslide, hi, mid)
         IN  IF h1 = h1 THEN VartimeScan(h1, A, aslide, bslide, mid - 1, lo) ELSE h1

(* The highest position in lo..hi where either form has a digit, or 0. *)
RECURSIVE TopDigit(_, _, _, _)
TopDigit(aslide, bslide, lo, hi) ==
    IF lo > hi THEN 0
    ELSE IF lo = hi
    THEN IF DigitAt(aslide, lo) # 0 \/ DigitAt(bslide, lo) # 0 THEN lo ELSE 0
    ELSE LET mid == (lo + hi + 1) \div 2
             upper == TopDigit(aslide, bslide, mid, hi)
         IN  IF upper # 0 THEN upper ELSE TopDigit(aslide, bslide, lo, mid - 1)

GeDoubleScalarMultVartime(a, A, b) ==
    LET aslide == SlidingNAF(ScalarBits(a), 5)
        bslide == SlidingNAF(ScalarBits(b), 8)
        top == TopDigit(aslide, bslide, 1, Len(aslide) + Len(bslide))
    IN  IF aslide = aslide /\ bslide = bslide /\ top = top
        THEN ToProjective(VartimeScan(Zero, A, aslide, bslide, top, 1))
        ELSE ToProjective(Zero)

-----------------------------------------------------------------------------
(* State. *)

VARIABLES
    salt,        \* which function of the family stands for SHA-512
    phase,       \* the position of the caller: which operation comes next
    randRead,    \* what io.ReadFull obtained from the random source
    publicKey, privateKey, genErr,   \* the results of GenerateKey
    genWork,     \* what GenerateKey computed: digests, scalar multiplications, a
    message, signature, signA,       \* the input and results of Sign
    vPub, vMsg, vSig, vResult        \* the inputs and the result of Verify

sigVars == <<salt, phase, randRead, publicKey, privateKey, genErr, genWork,
             message, signature, signA, vPub, vMsg, vSig, vResult>>

VARIABLES
    cIn,         \* the encoding handed to decodePoint
    cPc,         \* how far the caller has come
    cDec, cEnc,  \* decodePoint(cIn), and encodePoint of that point
    cDec2, cEnc2,    \* the same once more, from cEnc
    cFlip        \* decodePoint of cIn with the sign bit flipped

codecVars == <<cIn, cPc, cDec, cEnc, cDec2, cEnc2, cFlip>>

VARIABLES
    mk, ml,      \* the scalars k and l handed to the multiplications
    mp, mq,      \* the points p and q (extended coordinates)
    mPc,         \* how far the caller has come
    smk,         \* ScalarMult: the scalar of the call in progress
    ret,         \* ScalarMult: the call, "test", "inplace", "res1" or "res2"
    out, tmpP,   \* ScalarMult and DoubleScalarMult: the accumulator, 2^i * p
    out2, tmpQ,  \* the interleaved DoubleScalarMult: the same for l and q
    bix, bitNum, \* the loop position: byte index, bit number 8..1
    res1, res2,  \* the sequential DoubleScalarMult: its two products
    ops, flags,  \* the group operations of the ScalarMult call in progress,
                 \* in order, and the selectors handed to its conditional moves
    opsTest,     \* ops of the caller's own ScalarMult call, once it returned
    nAdd, nDouble, nCMove,  \* operations executed by the call in progress
    bigN, scalarBytes,      \* scalarMult (big.Int): accumulator n, bytes to go
    rScalarMult, rBig, rSeq, rInt,  \* the results
    rAdd, rDouble, rBigAdd,  \* TestPointAdd: PointAdd(P, P), P.Double, pointAdd
    cmT, cmU, cmB            \* a conditional move: t and u after it, the flag

multVars == <<mk, ml, mp, mq, mPc, smk, ret, out, tmpP, out2, tmpQ, bix, bitNum,
              res1, res2, ops, flags, opsTest, nAdd, nDouble, nCMove,
              bigN, scalarBytes, rScalarMult, rBig, rSeq, rInt,
              rAdd, rDouble, rBigAdd, cmT, cmU, cmB>>

notSig == <<codecVars, multVars>>
notCodec == <<sigVars, multVars>>
notMult == <<sigVars, codecVars>>

-----------------------------------------------------------------------------
(* SHA-512 is an external collaborator.  It is modelled as a family of     *)
(* functions from byte strings to digests, one per salt, whose values      *)
(* include the digests that reduce to the scalars 0 and 1.                 *)

DigestTable ==
    << <<0, 0, 0, 0>>, <<255, 255, 255, 255>>, <<3, 16, 0, 0>>, <<4, 16, 0, 0>>,
       <<91, 167, 19, 196>>, <<8, 64, 1, 0>>, <<200, 17, 250, 3>>, <<7, 128, 77, 9>>,
       <<36, 219, 102, 240>>, <<129, 1, 2, 16>>, <<250, 63, 31, 127>> >>

RECURSIVE WeightedSum(_)
WeightedSum(s) ==
    IF s = <<>> THEN 0 ELSE (Len(s) * s[Len(s)] + 3 * WeightedSum(SubSeq(s, 1, Len(s) - 1)) + 1) % 65536

sha512(input) == DigestTable[((salt + WeightedSum(input)) % Len(DigestTable)) + 1]

-----------------------------------------------------------------------------
(* The protocol. *)

(* io.ReadFull(rand, privateKey[:32]): an error unless all bytes arrive. *)
ReadFull(data) ==
    [data |-> data,
     err |-> IF Len(data) = PublicKeySize THEN "nil"
             ELSE IF Len(data) = 0 THEN "EOF" ELSE "ErrUnexpectedEOF"]

(* GenerateKey going on after a failed read, with the bytes it has. *)
GenerateKeyIgnoresError(rd) ==
    LET seed == [i \in 1..PublicKeySize |-> IF i <= Len(rd.data) THEN rd.data[i] ELSE 0]
        digest == sha512(seed)
        clamped == [digest EXCEPT ![1] = BitAnd(@, 248),
                                  ![PublicKeySize] = BitOr(BitAnd(@, 127), 64)]
        a == scalarFrom32Bytes(SubSeq(clamped, 1, PublicKeySize))
        A == toAffine(scalarMult(a, bX, bY))
        pub == encodePoint(A.x, A.y)
    IN  [publicKey |-> pub, privateKey |-> seed \o pub, err |-> rd.err,
         hashes |-> 1, mults |-> 1, a |-> a]

(* GenerateKey that clears the low three bits and leaves the top two. *)
GenerateKeyHalfClamp(rd) ==
    IF rd.err # "nil"
    THEN [publicKey |-> Nil, privateKey |-> Nil, err |-> rd.err,
          hashes |-> 0, mults |-> 0, a |-> 0]
    ELSE LET seed == rd.data
             digest == sha512(seed)
             clamped == [digest EXCEPT ![1] = BitAnd(@, 248)]
             a == scalarFrom32Bytes(SubSeq(clamped, 1, PublicKeySize))
             A == toAffine(scalarMult(a, bX, bY))
             pub == encodePoint(A.x, A.y)
         IN  [publicKey |-> pub, privateKey |-> seed \o pub, err |-> "nil",
              hashes |-> 1, mults |-> 1, a |-> a]

GenerateKey(rd) ==
    IF rd.err # "nil"
    THEN [publicKey |-> Nil, privateKey |-> Nil, err |-> rd.err,
          hashes |-> 0, mults |-> 0, a |-> 0]
    ELSE LET seed == rd.data
             digest == sha512(seed)
             clamped == [digest EXCEPT ![1] = BitAnd(@, 248),
                                       ![PublicKeySize] = BitOr(BitAnd(@, 127), 64)]
             a == scalarFrom32Bytes(SubSeq(clamped, 1, PublicKeySize))
             A == toAffine(scalarMult(a, bX, bY))
             pub == encodePoint(A.x, A.y)
         IN  [publicKey |-> pub, privateKey |-> seed \o pub, err |-> "nil",
              hashes |-> 1, mults |-> 1, a |-> a]

Sign(priv, msg) ==
    LET expandedSecretKey0 == sha512(SubSeq(priv, 1, PublicKeySize))
        expandedSecretKey ==
            [expandedSecretKey0 EXCEPT ![1] = BitAnd(@, 248),
                                       ![PublicKeySize] = BitOr(BitAnd(@, 127), 64)]
        a == scalarFrom32Bytes(SubSeq(expandedSecretKey, 1, PublicKeySize))
        messageDigest ==
            sha512(SubSeq(expandedSecretKey, PublicKeySize + 1, DigestSize) \o msg)
        r == scalarFrom64Bytes(messageDigest)
        R == toAffine(scalarMult(r, bX, bY))
        encodedR == encodePoint(R.x, R.y)
        hramDigest ==
            sha512(encodedR \o SubSeq(priv, PublicKeySize + 1, PrivateKeySize) \o msg)
        s == (scalarFrom64Bytes(hramDigest) * a + r) % order
    IN  [signature |-> encodedR \o encodeScalar(s), a |-> a, r |-> r]

Verify(pub, msg, sig) ==
    LET digest == sha512(SubSeq(sig, 1, PublicKeySize) \o pub \o msg)
        H == scalarFrom64Bytes(digest)
        S == scalarFrom32Bytes(SubSeq(sig, PublicKeySize + 1, SignatureSize))
        A == decodePoint(pub)
    IN  IF ~A.ok THEN FALSE
        ELSE LET SB == scalarMult(S, bX, bY)
                 HRAMA0 == scalarMult(H, A.x, A.y)
                 HRAMA == [HRAMA0 EXCEPT !.x = (0 - @) + p25519,
                                         !.t = (0 - @) + p25519]
                 P == toAffine(pointAdd(SB, HRAMA))
                 rPrime == encodePoint(P.x, P.y)
             IN  SubSeq(sig, 1, PublicKeySize) = rPrime

-----------------------------------------------------------------------------
(* The callers of the protocol: a key owner who generates a key pair and   *)
(* signs one message, and a verifier who is handed a public key, a message *)
(* and a signature that are the honest ones or were altered on the way.    *)

NSalts == 6
NSeeds == 6
MaxMsgLen == 1
MaxWraps == 2

Salts == 0..(NSalts - 1)
Seeds == {<<(37 * i + 5) % 256, (101 * i) % 256>> : i \in 0..(NSeeds - 1)}
ShortReads == {<<>>, <<7>>}
MsgBytes == {7}
Messages == UNION {[1..n -> MsgBytes] : n \in 0..MaxMsgLen}

(* The byte array a with bit 7 of its last byte flipped. *)
FlipSign(a) == [a EXCEPT ![Len(a)] = BitXor(@, 128)]

(* The signature sig with j times the group order added to its scalar S. *)
AddOrder(sig, j) ==
    LET S == SetBytes(Reverse(SubSeq(sig, PublicKeySize + 1, SignatureSize)))
    IN  SubSeq(sig, 1, PublicKeySize) \o encodeScalar(S + j * order)

(* A signature computed from a scalar alone: R = S * B. *)
FromScalar(S) ==
    LET R == toAffine(scalarMult(S, bX, bY))
    IN  encodePoint(R.x, R.y) \o encodeScalar(S)

(* Encodings of the neutral element (0, 1): canonical, with the sign bit   *)
(* set, and with y = p + 1.                                                *)
NeutralKeys == {<<1, 0>>, <<1, 128>>, encodeScalar(p25519 + 1)}

VerifyKeys == {publicKey, FlipSign(publicKey)} \cup NeutralKeys

VerifySigs ==
    {signature, FlipSign(SubSeq(signature, 1, PublicKeySize))
                    \o SubSeq(signature, PublicKeySize + 1, SignatureSize),
     FromScalar(5), AddOrder(FromScalar(5), 1)}
    \cup {AddOrder(signature, j) : j \in 1..MaxWraps}

SigStart ==
    /\ salt \in Salts
    /\ phase = "start"
    /\ randRead = ReadFull(<<>>)
    /\ publicKey = Nil /\ privateKey = Nil /\ genErr = "nil"
    /\ genWork = [hashes |-> 0, mults |-> 0, a |-> 0]
    /\ message = Nil /\ signature = Nil /\ signA = 0
    /\ vPub = Nil /\ vMsg = Nil /\ vSig = Nil /\ vResult = FALSE

CallGenerateKey ==
    /\ phase = "start"
    /\ \E data \in Seeds \cup ShortReads :
         LET rd == ReadFull(data)
             g == GenerateKey(rd)
         IN  /\ randRead' = rd
             /\ publicKey' = g.publicKey
             /\ privateKey' = g.privateKey
             /\ genErr' = g.err
             /\ genWork' = [hashes |-> g.hashes, mults |-> g.mults, a |-> g.a]
             /\ phase' = IF g.err = "nil" THEN "keyed" ELSE "failed"
    /\ UNCHANGED <<salt, message, signature, signA, vPub, vMsg, vSig, vResult>>
    /\ UNCHANGED notSig

CallSign ==
    /\ phase = "keyed"
    /\ \E m \in Messages :
         LET sg == Sign(privateKey, m)
         IN  /\ message' = m
             /\ signature' = sg.signature
             /\ signA' = sg.a
    /\ phase' = "signed"
    /\ UNCHANGED <<salt, randRead, publicKey, privateKey, genErr, genWork,
                   vPub, vMsg, vSig, vResult>>
    /\ UNCHANGED notSig

CallVerify ==
    /\ phase = "signed"
    /\ \E pub \in VerifyKeys, m \in Messages, sig \in VerifySigs :
         /\ vPub' = pub
         /\ vMsg' = m
         /\ vSig' = sig
         /\ vResult' = Verify(pub, m, sig)
    /\ phase' = "verified"
    /\ UNCHANGED <<salt, randRead, publicKey, privateKey, genErr, genWork,
                   message, signature, signA>>
    /\ UNCHANGED notSig

-----------------------------------------------------------------------------
(* The point codec on its own: an encoding is decoded, the point encoded   *)
(* again, and that decoded and encoded once more; and the encoding with    *)
(* its sign bit flipped is decoded.                                        *)

YSpan == 40

NoPoint == [x |-> Nil, y |-> Nil, ok |-> FALSE]

(* The 15 bits of y and the sign bit, as the wire format lays them out. *)
Encoding(y, s) == <<y % 256, (y \div 256) + 128 * s>>

(* y near 0, near p on both sides, up to the largest 15-bit value, and     *)
(* the base point's y.                                                     *)
CodecYs ==
    (0..YSpan) \cup ((p25519 - YSpan)..(2 ^ (8 * PublicKeySize - 1) - 1)) \cup {bY}

GeneratedKeys == {GenerateKey(ReadFull(seed)).publicKey : seed \in Seeds}

CodecInputs == {Encoding(y, s) : y \in CodecYs, s \in {0, 1}} \cup GeneratedKeys

CodecIdle ==
    /\ cIn = Nil /\ cPc = "idle"
    /\ cDec = NoPoint /\ cEnc = Nil /\ cDec2 = NoPoint /\ cEnc2 = Nil
    /\ cFlip = NoPoint

SigIdle ==
    /\ phase = "idle"
    /\ randRead = ReadFull(<<>>)
    /\ publicKey = Nil /\ privateKey = Nil /\ genErr = "nil"
    /\ genWork = [hashes |-> 0, mults |-> 0, a |-> 0]
    /\ message = Nil /\ signature = Nil /\ signA = 0
    /\ vPub = Nil /\ vMsg = Nil /\ vSig = Nil /\ vResult = FALSE

CodecInit ==
    /\ salt \in Salts
    /\ SigIdle
    /\ cIn \in CodecInputs
    /\ cPc = "in"
    /\ cDec = NoPoint /\ cEnc = Nil /\ cDec2 = NoPoint /\ cEnc2 = Nil
    /\ cFlip = NoPoint

Decode ==
    /\ cPc = "in"
    /\ cDec' = decodePoint(cIn)
    /\ cPc' = "decoded"
    /\ UNCHANGED <<cIn, cEnc, cDec2, cEnc2, cFlip>>
    /\ UNCHANGED notCodec

Encode ==
    /\ cPc = "decoded" /\ cDec.ok
    /\ cEnc' = encodePoint(cDec.x, cDec.y)
    /\ cPc' = "encoded"
    /\ UNCHANGED <<cIn, cDec, cDec2, cEnc2, cFlip>>
    /\ UNCHANGED notCodec

DecodeAgain ==
    /\ cPc = "encoded"
    /\ cDec2' = decodePoint(cEnc)
    /\ cPc' = "decoded2"
    /\ UNCHANGED <<cIn, cDec, cEnc, cEnc2, cFlip>>
    /\ UNCHANGED notCodec

EncodeAgain ==
    /\ cPc = "decoded2" /\ cDec2.ok
    /\ cEnc2' = encodePoint(cDec2.x, cDec2.y)
    /\ cPc' = "encoded2"
    /\ UNCHANGED <<cIn, cDec, cEnc, cDec2, cFlip>>
    /\ UNCHANGED notCodec

DecodeFlipped ==
    /\ cPc = "decoded" /\ cDec.ok
    /\ cFlip' = decodePoint(FlipSign(cIn))
    /\ cPc' = "flipped"
    /\ UNCHANGED <<cIn, cDec, cEnc, cDec2, cEnc2>>
    /\ UNCHANGED notCodec

-----------------------------------------------------------------------------
(* The multiplications of package edwards25519, called as its tests call   *)
(* them: ScalarMult(k, p); the big.Int scalarMult on the same inputs;      *)
(* DoubleScalarMult(k, p, l, q) in its two variants.  The loops advance    *)
(* one pass per step.                                                      *)

NMultScalars == 2
NMultPoints == 1

ScalarOf(b0, b31) ==
    [i \in 1..ScalarLen |-> IF i = 1 THEN b0 ELSE IF i = ScalarLen THEN b31 ELSE 0]

arg1 ==
    <<191, 167, 168, 36, 214, 101, 140, 153, 31, 174, 240, 131, 178, 220, 4, 23,
      63, 200, 108, 79, 122, 145, 143, 45, 141, 223, 182, 43, 28, 133, 60, 120>>

arg2 ==
    <<61, 88, 82, 173, 35, 82, 196, 75, 120, 174, 211, 66, 42, 24, 210, 222,
      3, 6, 129, 133, 116, 121, 56, 54, 253, 101, 140, 238, 19, 208, 54, 122>>

(* Scalars with every byte set, the last above 127. *)
MixedScalar(j) == [i \in 1..ScalarLen |-> (i * (36 + j) + 11 * j) % 256]

MultScalars ==
    {ScalarOf(0, 0), ScalarOf(1, 0), ScalarOf(2, 0), arg1, [i \in 1..ScalarLen |-> 255]}
        \cup {MixedScalar(j) : j \in 1..NMultScalars}

SecondScalars == {ScalarOf(0, 0), arg2, MixedScalar(1)}

(* The extended element of the affine point (x, y) with Z = z. *)
Extended(x, y, z) ==
    [X |-> FeMul(x, z), Y |-> FeMul(y, z), Z |-> z, T |-> FeMul(FeMul(x, y), z)]

basePointE == Extended(bX, bY, 1)

(* A multiple of the base point, as randomPoint makes them. *)
randomPoint(j) ==
    LET a == toAffine(scalarMult((1000 * j + 577) % order, bX, bY))
    IN  Extended(a.x, a.y, 1)

(* A point outside the subgroup of the base point (the base point plus the *)
(* point (sqrt(-1), 0) of order 4), with Z # 1. *)
FullOrderPoint ==
    LET a == toAffine(pointAdd([x |-> bX, y |-> bY, z |-> 1, t |-> MulP(bX, bY)],
                               [x |-> sqrtm1, y |-> 0, z |-> 1, t |-> 0]))
    IN  Extended(a.x, a.y, 3)

(* The point (0, -1) of order 2. *)
LowOrderPoint == Extended(0, p25519 - 1, 1)

MultPoints ==
    {basePointE, FullOrderPoint, LowOrderPoint} \cup {randomPoint(j) : j \in 1..NMultPoints}

SecondPoints == {basePointE, FullOrderPoint}

NoElement == [X |-> 0, Y |-> 0, Z |-> 0, T |-> 0]

NoBasicPoint == [x |-> 0, y |-> 0]

NoField == [x |-> 0, y |-> 0, z |-> 0, t |-> 0]

(* The state of the multiplications before any call. *)
MultLocals ==
    /\ smk = Nil /\ ret = "none"
    /\ out = NoElement /\ tmpP = NoElement /\ out2 = NoElement /\ tmpQ = NoElement
    /\ bix = 0 /\ bitNum = 8
    /\ res1 = NoElement /\ res2 = NoElement
    /\ ops = <<>> /\ flags = <<>> /\ opsTest = <<>>
    /\ nAdd = 0 /\ nDouble = 0 /\ nCMove = 0
    /\ bigN = NoField /\ scalarBytes = Nil
    /\ rScalarMult = NoElement /\ rBig = NoBasicPoint
    /\ rSeq = NoElement /\ rInt = NoElement
    /\ rAdd = NoElement /\ rDouble = NoElement /\ rBigAdd = NoBasicPoint
    /\ cmT = NoElement /\ cmU = NoElement /\ cmB = 0

MultIdle ==
    /\ mk = Nil /\ ml = Nil /\ mp = NoElement /\ mq = NoElement
    /\ mPc = "idle"
    /\ MultLocals

MultInit ==
    /\ salt = 0
    /\ SigIdle
    /\ CodecIdle
    /\ mk \in MultScalars /\ ml = Nil
    /\ mp \in MultPoints /\ mq = NoElement
    /\ mPc = "start"
    /\ MultLocals

(* How many times the operation kind occurs in a list of operations. *)
Count(kind, list) == Cardinality({i \in 1..Len(list) : list[i] = kind})

inputs == <<mk, ml, mp, mq>>

results == <<rScalarMult, rBig, rSeq, rInt>>

bigVars == <<bigN, scalarBytes>>

seqVars == <<res1, res2>>

interleavedVars == <<out2, tmpQ>>

counters == <<nAdd, nDouble, nCMove>>

pointAddVars == <<rAdd, rDouble, rBigAdd>>

cmoveVars == <<cmT, cmU, cmB>>

(* What ScalarMult, DoubleScalarMult and scalarMult leave alone. *)
elsewhere == <<notMult, pointAddVars, cmoveVars>>

(* The entry with the two statements exchanged: out.Zero(); tmpP := *p,    *)
(* which copies the zeroed element when out and p are the same variable.   *)
EnterScalarMultZeroFirst(scalar, p, from) ==
    /\ smk' = scalar /\ ret' = from
    /\ out' = Zero /\ tmpP' = IF from = "inplace" THEN Zero ELSE p
    /\ bix' = 0 /\ bitNum' = 8
    /\ ops' = <<>> /\ flags' = <<>>

(* The entry of ScalarMult(&r, k, p): tmpP := *p; out.Zero(). *)
EnterScalarMult(scalar, p, from) ==
    /\ smk' = scalar /\ ret' = from
    /\ tmpP' = p /\ out' = Zero
    /\ bix' = 0 /\ bitNum' = 8
    /\ ops' = <<>> /\ flags' = <<>>

(* The step of the two nested loops: bitNum--, and the next byte after     *)
(* bit number 1.                                                           *)
NextBit ==
    IF bitNum = 1
    THEN bix' = bix + 1 /\ bitNum' = 8
    ELSE bix' = bix /\ bitNum' = bitNum - 1

CallScalarMult ==
    /\ mPc = "start"
    /\ EnterScalarMult(mk, mp, "test")
    /\ nAdd' = 0 /\ nDouble' = 0 /\ nCMove' = 0
    /\ mPc' = "ScalarMult"
    /\ UNCHANGED <<inputs, results, bigVars, seqVars, interleavedVars, opsTest>>
    /\ UNCHANGED elsewhere

(* One pass of the inner loop of ScalarMult. *)
ScalarMultStep ==
    /\ mPc = "ScalarMult"
    /\ bix < ScalarLen
    /\ LET r == ScalarMultBody(out, tmpP, smk[bix + 1], bitNum)
       IN  /\ out' = r.out
           /\ tmpP' = r.tmpP
           /\ ops' = ops \o r.ops
           /\ flags' = flags \o r.flags
           /\ nAdd' = nAdd + Count("geAdd", r.ops)
           /\ nDouble' = nDouble + Count("Double", r.ops)
           /\ nCMove' = nCMove + Count("CMove", r.ops)
    /\ NextBit
    /\ UNCHANGED <<inputs, results, bigVars, seqVars, interleavedVars, opsTest,
                   mPc, smk, ret>>
    /\ UNCHANGED elsewhere

(* ScalarMult returns to the test. *)
ScalarMultReturn ==
    /\ mPc = "ScalarMult"
    /\ bix = ScalarLen
    /\ ret = "test"
    /\ rScalarMult' = out
    /\ opsTest' = ops
    /\ mPc' = "scalarMult"
    /\ UNCHANGED <<inputs, rBig, rSeq, rInt, bigVars, seqVars,
                   interleavedVars, counters, smk, ret, out, tmpP, bix, bitNum,
                   ops, flags>>
    /\ UNCHANGED elsewhere

(* The entry of the big.Int scalarMult with the scalar k and the affine    *)
(* point of p.                                                             *)
CallBigScalarMult ==
    /\ mPc = "returned"
    /\ scalarBytes' = BytesOf(Reverse(mk))
    /\ bigN' = [x |-> 0, y |-> 1, z |-> 1, t |-> 0]
    /\ mPc' = "scalarMultLoop"
    /\ UNCHANGED <<inputs, results, seqVars, interleavedVars, counters, smk, ret,
                   out, tmpP, bix, bitNum, ops, flags, opsTest>>
    /\ UNCHANGED elsewhere

(* One pass of the outer loop of scalarMult: the eight bits of a byte. *)
BigScalarMultByte ==
    /\ mPc = "scalarMultLoop"
    /\ scalarBytes # <<>>
    /\ LET a == toBasicPoint(mp)
           p == [x |-> a.x, y |-> a.y, z |-> 1, t |-> a.x * a.y]
       IN  bigN' = scalarMultBits(bigN, p, Head(scalarBytes), 0)
    /\ scalarBytes' = Tail(scalarBytes)
    /\ UNCHANGED <<inputs, results, seqVars, interleavedVars, counters, smk, ret,
                   out, tmpP, bix, bitNum, ops, flags, opsTest, mPc>>
    /\ UNCHANGED elsewhere

BigScalarMultReturn ==
    /\ mPc = "scalarMultLoop"
    /\ scalarBytes = <<>>
    /\ rBig' = toAffine(bigN)
    /\ mPc' = "DoubleScalarMult"
    /\ UNCHANGED <<inputs, rScalarMult, rSeq, rInt, bigVars,
                   seqVars, interleavedVars, counters, smk, ret, out, tmpP, bix,
                   bitNum, ops, flags, opsTest>>
    /\ UNCHANGED elsewhere

(* DoubleScalarMult, the variant of two ScalarMult calls: the entry, up to *)
(* the call ScalarMult(&res1, k, p).                                       *)
CallDoubleScalarMult ==
    /\ mPc = "DoubleScalarMult"
    /\ \E l \in SecondScalars, q \in SecondPoints : ml' = l /\ mq' = q
    /\ EnterScalarMult(mk, mp, "res1")
    /\ nAdd' = 0 /\ nDouble' = 0 /\ nCMove' = 0
    /\ mPc' = "ScalarMult"
    /\ UNCHANGED <<mk, mp, results, bigVars, seqVars, interleavedVars, opsTest>>
    /\ UNCHANGED elsewhere

(* The first call returns; ScalarMult(&res2, l, q) is entered. *)
DoubleScalarMultSecond ==
    /\ mPc = "ScalarMult"
    /\ bix = ScalarLen
    /\ ret = "res1"
    /\ res1' = out
    /\ EnterScalarMult(ml, mq, "res2")
    /\ UNCHANGED <<inputs, results, bigVars, res2, interleavedVars, counters,
                   opsTest, mPc>>
    /\ UNCHANGED elsewhere

(* The second call returns; res2.ToCached, geAdd, res3.ToExtended(r). *)
DoubleScalarMultReturn ==
    /\ mPc = "ScalarMult"
    /\ bix = ScalarLen
    /\ ret = "res2"
    /\ res2' = out
    /\ rSeq' = Combine(res1, out)
    /\ nAdd' = nAdd + 1
    /\ mPc' = "DoubleScalarMultInterleaved"
    /\ UNCHANGED <<inputs, rScalarMult, rBig, rInt, bigVars, res1,
                   interleavedVars, nDouble, nCMove, smk, ret, out, tmpP, bix,
                   bitNum, ops, flags, opsTest>>
    /\ UNCHANGED elsewhere

(* One pass of the interleaved loop that leaves an addition and its        *)
(* conditional move out when the selector is 0.                            *)
DoubleScalarMultBodyBranching(o, o2, tP, tQ, byte, byte2, bitNo) ==
    LET b == SelectorBit(byte, bitNo)
        b2 == SelectorBit(byte2, bitNo)
        e == ToExtended(geAdd(o, ToCached(tP)))
        eQ == ToExtended(geAdd(o2, ToCached(tQ)))
    IN  [out |-> IF b = 1 THEN e ELSE o,
         out2 |-> IF b2 = 1 THEN eQ ELSE o2,
         tmpP |-> ToExtended(Double(tP)),
         tmpQ |-> ToExtended(Double(tQ)),
         ops |-> (IF b = 1 THEN <<"geAdd", "CMove">> ELSE <<>>)
                     \o (IF b2 = 1 THEN <<"geAdd", "CMove">> ELSE <<>>)
                     \o <<"Double", "Double">>]

(* One pass of the inner loop of the interleaved DoubleScalarMult. *)
DoubleScalarMultBody(o, o2, tP, tQ, byte, byte2, bitNo) ==
    LET cach == ToCached(tP)
        comp == geAdd(o, cach)
        e == ToExtended(comp)
        cachQ == ToCached(tQ)
        compQ == geAdd(o2, cachQ)
        eQ == ToExtended(compQ)
    IN  [out |-> ExtendedGroupElementCMove(o, e, SelectorBit(byte, bitNo)),
         out2 |-> ExtendedGroupElementCMove(o2, eQ, SelectorBit(byte2, bitNo)),
         tmpP |-> ToExtended(Double(tP)),
         tmpQ |-> ToExtended(Double(tQ)),
         ops |-> <<"geAdd", "CMove", "geAdd", "CMove", "Double", "Double">>]

(* The entry of the interleaved DoubleScalarMult. *)
CallDoubleScalarMultInterleaved ==
    /\ mPc = "DoubleScalarMultInterleaved"
    /\ tmpP' = mp /\ tmpQ' = mq
    /\ out2' = Zero /\ out' = Zero
    /\ bix' = 0 /\ bitNum' = 8
    /\ nAdd' = 0 /\ nDouble' = 0 /\ nCMove' = 0
    /\ ops' = <<>> /\ flags' = <<>>
    /\ mPc' = "interleaved"
    /\ UNCHANGED <<inputs, results, bigVars, seqVars, smk, ret, opsTest>>
    /\ UNCHANGED elsewhere

DoubleScalarMultStep ==
    /\ mPc = "interleaved"
    /\ bix < ScalarLen
    /\ LET r == DoubleScalarMultBody(out, out2, tmpP, tmpQ, mk[bix + 1],
                                     ml[bix + 1], bitNum)
       IN  /\ out' = r.out /\ out2' = r.out2
           /\ tmpP' = r.tmpP /\ tmpQ' = r.tmpQ
           /\ nAdd' = nAdd + Count("geAdd", r.ops)
           /\ nDouble' = nDouble + Count("Double", r.ops)
           /\ nCMove' = nCMove + Count("CMove", r.ops)
    /\ NextBit
    /\ UNCHANGED <<inputs, results, bigVars, seqVars, smk, ret, ops, flags,
                   opsTest, mPc>>
    /\ UNCHANGED elsewhere

(* After the loop: out2.ToCached, geAdd, comp.ToExtended(out). *)
DoubleScalarMultInterleavedReturn ==
    /\ mPc = "interleaved"
    /\ bix = ScalarLen
    /\ out' = Combine(out, out2)
    /\ rInt' = Combine(out, out2)
    /\ nAdd' = nAdd + 1
    /\ mPc' = "done"
    /\ UNCHANGED <<inputs, rScalarMult, rBig, rSeq, bigVars,
                   seqVars, out2, tmpP, tmpQ, nDouble, nCMove, smk, ret, bix,
                   bitNum, ops, flags, opsTest>>
    /\ UNCHANGED elsewhere

(* TestPointAdd: PointAdd(&res, &rp1, &rpC) with rpC the cached rp1,       *)
(* rp1.Double(&res2), and pointAdd(n, n, n) of the big.Int implementation  *)
(* on the same point.                                                      *)
TestPointAdd ==
    /\ mPc = "done"
    /\ rAdd' = PointAdd(mp, ToCached(mp))
    /\ rDouble' = Double(mp)
    /\ LET a == toBasicPoint(mp)
           n == [x |-> a.x, y |-> a.y, z |-> 1, t |-> a.x * a.y]
       IN  rBigAdd' = toAffine(pointAdd(n, n))
    /\ mPc' = "pointAdded"
    /\ UNCHANGED <<inputs, results, bigVars, seqVars, interleavedVars, counters,
                   smk, ret, out, tmpP, bix, bitNum, ops, flags, opsTest>>
    /\ UNCHANGED <<notMult, cmoveVars>>

(* ExtendedGroupElementCMove(&t, &u, b) on two elements of the caller, the *)
(* point p and the sum DoubleScalarMult returned, for either flag.         *)
CallExtendedGroupElementCMove ==
    /\ mPc = "pointAdded"
    /\ \E b \in {0, 1} :
           LET r == CMoveOperands(mp, rSeq, b)
           IN  cmT' = r.t /\ cmU' = r.u /\ cmB' = b
    /\ mPc' = "moved"
    /\ UNCHANGED <<inputs, results, bigVars, seqVars, interleavedVars, counters,
                   smk, ret, out, tmpP, bix, bitNum, ops, flags, opsTest>>
    /\ UNCHANGED <<notMult, pointAddVars>>

(* The value of *p when the call in progress was entered. *)
EntryPoint == IF ret = "res2" THEN mq ELSE mp

(* The variable of the caller that p points to.  In the call               *)
(* ScalarMult(&x, k, &x) that variable is also *out, which out.Zero() and  *)
(* the conditional moves write; in the other calls nothing is stored       *)
(* through p.                                                              *)
CallerPoint == IF ret = "inplace" THEN out ELSE EntryPoint

(* ScalarMult(&x, k, &x) with x holding the point p: out and p are the     *)
(* same variable.                                                          *)
CallScalarMultInPlace ==
    /\ mPc = "scalarMult"
    /\ EnterScalarMult(mk, mp, "inplace")
    /\ nAdd' = 0 /\ nDouble' = 0 /\ nCMove' = 0
    /\ mPc' = "ScalarMult"
    /\ UNCHANGED <<inputs, results, bigVars, seqVars, interleavedVars, opsTest>>
    /\ UNCHANGED elsewhere

ScalarMultInPlaceReturn ==
    /\ mPc = "ScalarMult"
    /\ bix = ScalarLen
    /\ ret = "inplace"
    /\ mPc' = "returned"
    /\ UNCHANGED <<inputs, results, bigVars, seqVars, interleavedVars, counters,
                   smk, ret, out, tmpP, bix, bitNum, ops, flags, opsTest>>
    /\ UNCHANGED elsewhere

MultNext ==
    \/ CallScalarMult \/ ScalarMultStep \/ ScalarMultReturn
    \/ CallScalarMultInPlace \/ ScalarMultInPlaceReturn
    \/ CallBigScalarMult \/ BigScalarMultByte \/ BigScalarMultReturn
    \/ CallDoubleScalarMult \/ DoubleScalarMultSecond \/ DoubleScalarMultReturn
    \/ CallDoubleScalarMultInterleaved \/ DoubleScalarMultStep
    \/ DoubleScalarMultInterleavedReturn
    \/ TestPointAdd
    \/ CallExtendedGroupElementCMove

-----------------------------------------------------------------------------

vars == <<sigVars, codecVars, multVars>>

SigNext == CallGenerateKey \/ CallSign \/ CallVerify

SigInit == SigStart /\ CodecIdle /\ MultIdle

SpecSig == SigInit /\ [][SigNext]_vars

CodecNext == Decode \/ Encode \/ DecodeAgain \/ EncodeAgain \/ DecodeFlipped

CodecStart == CodecInit /\ MultIdle

SpecCodec == CodecStart /\ [][CodecNext]_vars

SpecMult == MultInit /\ [][MultNext]_vars

-----------------------------------------------------------------------------
(* What the properties are measured against: the affine addition law of    *)
(* the curve, n * P as a sum of n copies of P, and the wire format.        *)

RefInv(a) == Exp(a, p25519 - 2, p25519)

RefNeutral == [x |-> 0, y |-> 1]

RefAdd(P, Q) ==
    LET t == MulP(d, MulP(MulP(P.x, Q.x), MulP(P.y, Q.y)))
    IN  [x |-> MulP(MulP(P.x, Q.y) + MulP(Q.x, P.y), RefInv(1 + t)),
         y |-> MulP(MulP(P.y, Q.y) + MulP(P.x, Q.x), RefInv(1 - t))]

(* n * P = (n div 2) * P + (n div 2) * P + (n mod 2) * P *)
RECURSIVE RefMul(_, _)
RefMul(n, P) ==
    IF n = 0 THEN RefNeutral
    ELSE LET h == RefMul(n \div 2, P)
             h2 == RefAdd(h, h)
         IN  IF h = h /\ n % 2 = 1 THEN RefAdd(h2, P) ELSE h2

RefBase == [x |-> bX, y |-> bY]

(* The integer a little-endian byte array stands for. *)
RECURSIVE LittleEndian(_)
LittleEndian(a) ==
    IF a = <<>> THEN 0 ELSE a[1] + 256 * LittleEndian(Tail(a))

(* y in the low 15 bits, the parity of x in the top bit of the last byte. *)
RefEncode(P) == Encoding(P.y, P.x % 2)

(* The y an encoding carries: its low 15 bits. *)
EncodedY(e) == LittleEndian(e) % (2 ^ (8 * PublicKeySize - 1))

(* The second half of a signature as an integer. *)
SigS(sig) == LittleEndian(SubSeq(sig, PublicKeySize + 1, SignatureSize))

(* The low half of the digest of the seed with bits 0, 1, 2 and the top    *)
(* bit cleared and the bit below the top set.                              *)
ClampedScalar(seed) ==
    LET h == LittleEndian(SubSeq(sha512(seed), 1, PublicKeySize))
        top == 2 ^ (8 * PublicKeySize - 1)
    IN  (h % (top \div 2)) - (h % 8) + (top \div 2)

-----------------------------------------------------------------------------
(* C1: for every seed and message, the signature Sign makes with the key   *)
(* pair GenerateKey derived from the seed is accepted by Verify under that *)
(* public key and message.                                                 *)
C1_SignThenVerify ==
    (phase = "verified" /\ vPub = publicKey /\ vMsg = message /\ vSig = signature)
        => vResult = TRUE

C1_Witness ==
    /\ phase = "verified" /\ vPub = publicKey /\ vMsg = message
    /\ vSig = signature /\ vResult = TRUE /\ Len(message) > 0

(* C2: Verify returns false for every signature whose second half S is at  *)
(* least the group order, whatever the public key, message and R.          *)
C2_RejectsLargeS ==
    (phase = "verified" /\ SigS(vSig) >= order) => vResult = FALSE

(* C6: when the random source delivers fewer bytes than a seed GenerateKey *)
(* returns the error with both keys nil and has hashed and multiplied      *)
(* nothing; when it delivers a whole seed the error is nil and both keys   *)
(* are set.                                                                *)
C6_RandomFailure ==
    (phase \notin {"start", "idle"}) =>
        IF Len(randRead.data) < PublicKeySize
        THEN /\ genErr # "nil" /\ genErr = randRead.err
             /\ publicKey = Nil /\ privateKey = Nil
             /\ genWork.hashes = 0 /\ genWork.mults = 0
             /\ phase = "failed"
        ELSE /\ genErr = "nil"
             /\ Len(publicKey) = PublicKeySize /\ Len(privateKey) = PrivateKeySize

C6_Witness ==
    phase = "failed" /\ Len(randRead.data) = 1 /\ genErr = "ErrUnexpectedEOF"

(* C7: on success the private key is the seed followed by the public key,  *)
(* the public key is the encoding of a * B for the clamped scalar a, and   *)
(* Sign derives the same scalar.                                           *)
C7_KeyLayout ==
    (phase \in {"keyed", "signed", "verified"}) =>
        /\ Len(privateKey) = PrivateKeySize
        /\ Len(publicKey) = PublicKeySize
        /\ SubSeq(privateKey, 1, PublicKeySize) = randRead.data
        /\ SubSeq(privateKey, PublicKeySize + 1, PrivateKeySize) = publicKey
        /\ publicKey = RefEncode(RefMul(ClampedScalar(randRead.data), RefBase))
        /\ genWork.a = ClampedScalar(randRead.data) % order
        /\ (phase # "keyed" => signA = genWork.a)

C7_Witness ==
    /\ phase = "signed" /\ signA = genWork.a
    /\ LittleEndian(SubSeq(sha512(randRead.data), 1, PublicKeySize)) % 8 # 0
    /\ LittleEndian(SubSeq(sha512(randRead.data), 1, PublicKeySize))
           # ClampedScalar(randRead.data)

-----------------------------------------------------------------------------
(* C3: decodePoint returns ok = false for every encoding whose low 15 bits *)
(* are a y >= p.                                                           *)
C3_RejectsNonCanonicalY ==
    (cPc = "decoded" /\ EncodedY(cIn) >= p25519) => ~cDec.ok

(* C4: the encoding of a decodable point with its sign bit flipped is      *)
(* rejected or decodes to the same y with an x of the other parity that is *)
(* not congruent to the original x; never to the same point.               *)
C4_FlipChangesPoint ==
    (cPc = "flipped") =>
        \/ ~cFlip.ok
        \/ /\ cFlip.y = cDec.y
           /\ cFlip.x % 2 # cDec.x % 2
           /\ cFlip.x % p25519 # cDec.x % p25519

(* C5: every public key GenerateKey returns decodes, and whenever an       *)
(* encoding decodes, encoding the point gives back the same bytes, also    *)
(* after a second decoding and encoding.                                   *)
C5_RoundTrip ==
    /\ (cPc = "decoded" /\ cIn \in GeneratedKeys) => cDec.ok
    /\ (cPc = "encoded") => cEnc = cIn
    /\ (cPc = "decoded2") => (cDec2.ok /\ cDec2 = cDec)
    /\ (cPc = "encoded2") => cEnc2 = cIn

C5_Witness ==
    /\ cPc = "encoded2" /\ cIn \in GeneratedKeys /\ cEnc2 = cIn
    /\ cIn[PublicKeySize] >= 128

-----------------------------------------------------------------------------
(* The scalar multiplications against the group law.  The group of the     *)
(* curve has 8 * order elements, so k * P = (k mod 8 * order) * P.         *)

(* The bytes lo..hi of a little-endian scalar as a number mod m. *)
RECURSIVE RefValue(_, _, _, _)
RefValue(a, lo, hi, m) ==
    IF lo = hi THEN a[lo] % m
    ELSE LET mid == (lo + hi) \div 2
             low == RefValue(a, lo, mid, m)
             high == RefValue(a, mid + 1, hi, m)
         IN  (low + Exp(256, mid + 1 - lo, m) * high) % m

(* k * P for a 32-byte scalar k and an affine point P. *)
RefScalarMul(a, P) == RefMul(RefValue(a, 1, ScalarLen, 8 * order), P)

C9_DoubleScalarMult ==
    (mPc = "done") =>
        LET P == toBasicPoint(mp)
            Q == toBasicPoint(mq)
            sum == RefAdd(RefScalarMul(mk, P), RefScalarMul(ml, Q))
        IN  /\ toBasicPoint(rSeq) = sum
            /\ toBasicPoint(rInt) = sum
            /\ toBasicPoint(rSeq) = toBasicPoint(rInt)
            /\ (Q = RefBase)
                   => toBasicPoint(GeDoubleScalarMultVartime(mk, mp, ml)) = toBasicPoint(rInt)

C9_Witness ==
    /\ mPc = "done"
    /\ ml = arg2 /\ mk = arg1 /\ mq = basePointE /\ mp # basePointE
    /\ toBasicPoint(rInt) # toBasicPoint(rScalarMult)
    /\ toBasicPoint(rInt) # RefNeutral

(* The operations of the first i passes of ScalarMult's loop. *)
RefOps(i) ==
    [j \in 1..(3 * i) |->
        IF j % 3 = 1 THEN "geAdd" ELSE IF j % 3 = 2 THEN "CMove" ELSE "Double"]

(* C10: every call of ScalarMult executes exactly 256 additions, 256       *)
(* doublings and 256 conditional moves, in the same order whatever k is:   *)
(* after i passes the operations are i times (add, conditional move,       *)
(* double), two calls on different scalars have executed the same          *)
(* sequence, and only the selectors (the bits of k) differ.                *)
C10_SameOperations ==
    (mPc = "ScalarMult") =>
        LET i == 8 * bix + (8 - bitNum)
        IN  /\ ops = RefOps(i)
            /\ flags = [j \in 1..i |-> ScalarBits(smk)[j]]
            /\ (bix = ScalarLen) =>
                   /\ Count("geAdd", ops) = 256
                   /\ Count("Double", ops) = 256
                   /\ Count("CMove", ops) = 256
                   /\ Len(ops) = 768
                   /\ (ret # "test") => ops = opsTest

C10_Witness ==
    /\ mPc = "ScalarMult" /\ bix = ScalarLen /\ ret = "res2"
    /\ smk # mk /\ smk = ScalarOf(0, 0) /\ mk = arg1
    /\ Len(ops) = 768

(* C11: every call of DoubleScalarMult executes exactly 513 additions, 512  *)
(* doublings and 512 conditional moves whatever k and l are, in the        *)
(* variant of two ScalarMult calls and in the interleaved variant alike:   *)
(* at every point of a call the numbers depend on the position only.       *)
C11_DoubleScalarMultCounts ==
    LET i == 8 * bix + (8 - bitNum)
        Executed(a, dbl, c) == nAdd = a /\ nDouble = dbl /\ nCMove = c
    IN  /\ (mPc = "ScalarMult" /\ ret = "res1") => Executed(i, i, i)
        /\ (mPc = "ScalarMult" /\ ret = "res2") => Executed(256 + i, 256 + i, 256 + i)
        /\ (mPc = "DoubleScalarMultInterleaved") => Executed(513, 512, 512)
        /\ (mPc = "interleaved") => Executed(2 * i, 2 * i, 2 * i)
        /\ (mPc = "done") => Executed(513, 512, 512)

C11_Witness ==
    /\ mPc = "done"
    /\ mk = arg1 /\ ml = arg2
    /\ nAdd = 513 /\ nDouble = 512 /\ nCMove = 512

(* C12: for every valid point P the general addition of P to itself       *)
(* (PointAdd(P, cached P), and pointAdd(n, n, n) of the big.Int            *)
(* implementation) gives in affine coordinates the point Double(P) gives   *)
(* and the point ScalarMult(2, P) gives; for the base point that point is  *)
(* also GeScalarMultBase(2).                                               *)
C12_AddIsDouble ==
    (mPc = "pointAdded") =>
        LET sum == toBasicPoint(ToExtended(rAdd))
        IN  /\ sum = toBasicPoint(ToExtended(rDouble))
            /\ sum = rBigAdd
            /\ (mk = ScalarOf(2, 0)) => sum = toBasicPoint(rScalarMult)
            /\ (mp = basePointE)
                   => sum = toBasicPoint(GeScalarMultBase(ScalarOf(2, 0)))

C12_Witness ==
    /\ mPc = "pointAdded"
    /\ mk = ScalarOf(2, 0) /\ mp = FullOrderPoint
    /\ toBasicPoint(ToExtended(rAdd)) \notin {toBasicPoint(mp), RefNeutral}
    /\ rAdd # rDouble

(* C13: for a flag b in {0, 1}, ExtendedGroupElementCMove(t, u, b) leaves  *)
(* u as it was, makes the four coordinates of t those of u when b = 1 and  *)
(* leaves t as it was when b = 0 (each coordinate is what FeCMove gives);  *)
(* t never holds some coordinates of the old t and some of u.              *)
C13_CMoveFrame ==
    (mPc = "moved") =>
        /\ cmU = rSeq
        /\ (cmB = 1) => cmT = rSeq
        /\ (cmB = 0) => cmT = mp
        /\ cmT \in {mp, rSeq}
        /\ \A c \in {"X", "Y", "Z", "T"} : cmT[c] = FeCMove(mp[c], rSeq[c], cmB)

C13_Witness ==
    /\ mPc = "moved"
    /\ cmB = 1 /\ cmT = rSeq /\ cmU = rSeq
    /\ \A c \in {"X", "Y", "Z", "T"} : rSeq[c] # mp[c]

(* The integer of the low i bits of a scalar, modulo m. *)
RefLowBits(a, i, m) ==
    LET full == i \div 8
        r == i % 8
        low == IF full = 0 THEN 0 ELSE RefValue(a, 1, full, m)
        high == IF r = 0 THEN 0 ELSE Exp(256, full, m) * (a[full + 1] % (2 ^ r))
    IN  (low + high) % m

(* The addition law in projective coordinates (X : Y : Z), without         *)
(* inversions: x3 = (x1 y2 + x2 y1) / (1 + d x1 x2 y1 y2) and              *)
(* y3 = (y1 y2 + x1 x2) / (1 - d x1 x2 y1 y2) with x = X/Z, y = Y/Z.       *)
RefProjectiveAdd(P, Q) ==
    LET A == MulP(P.Z, Q.Z)
        B == MulP(A, A)
        C == MulP(P.X, Q.X)
        D == MulP(P.Y, Q.Y)
        E == MulP(d, MulP(C, D))
        F == (B - E) % p25519
        G == (B + E) % p25519
        S == (MulP(P.X, Q.Y) + MulP(Q.X, P.Y)) % p25519
    IN  [X |-> MulP(MulP(A, F), S),
         Y |-> MulP(MulP(A, G), (D + C) % p25519),
         Z |-> MulP(F, G)]

RECURSIVE RefProjectiveMul(_, _)
RefProjectiveMul(n, P) ==
    IF n = 0 THEN [X |-> 0, Y |-> 1, Z |-> 1]
    ELSE LET h == RefProjectiveMul(n \div 2, P)
             h2 == RefProjectiveAdd(h, h)
         IN  IF h = h /\ n % 2 = 1 THEN RefProjectiveAdd(h2, P) ELSE h2

(* Two elements (X : Y : Z) stand for the same affine point. *)
SamePoint(A, B) ==
    /\ A.Z % p25519 # 0 /\ B.Z % p25519 # 0
    /\ MulP(A.X, B.Z) = MulP(B.X, A.Z)
    /\ MulP(A.Y, B.Z) = MulP(B.Y, A.Z)

(* The loop invariant of ScalarMult: after i passes, the bits of k taken   *)
(* from the lowest bit of k[0] upwards, out is (k mod 2^i) * P and tmpP is *)
(* 2^i * P, for P the point p held when the call was entered.              *)
LoopInvariant ==
    LET i == 8 * bix + (8 - bitNum)
        P == EntryPoint
    IN  /\ smk = (IF ret = "res2" THEN ml ELSE mk)
        /\ SamePoint(out, RefProjectiveMul(RefLowBits(smk, i, 8 * order), P))
        /\ SamePoint(tmpP, RefProjectiveMul(Exp(2, i, 8 * order), P))

(* The calls the invariant is evaluated in: the caller's own call, the     *)
(* call in place and the second call of DoubleScalarMult.  (Its first call *)
(* has the scalar and the point of the caller's own call, and passes       *)
(* through the same values of out and tmpP.)                               *)
InScalarMult == mPc = "ScalarMult" /\ ret \in {"test", "inplace", "res2"}

(* C14 (as stated): the loop invariant holds after every number of passes, *)
(* and the scalar k and the point P of the caller are never modified, also *)
(* when out and P are the same variable.                                   *)
C14_PointNeverModified ==
    InScalarMult =>
        /\ LoopInvariant
        /\ CallerPoint = EntryPoint

(* C14 (amended): the loop invariant holds after every number of passes,   *)
(* also when out and P are the same variable; the point P of the caller is *)
(* left alone when out is another variable, and when out is P itself the   *)
(* variable holds the accumulator: the identity at entry, (k mod 2^i) * P  *)
(* after i passes, k * P at return.                                        *)
C14_LoopInvariant ==
    InScalarMult =>
        /\ LoopInvariant
        /\ (ret # "inplace") => CallerPoint = EntryPoint
        /\ (ret = "inplace") =>
               /\ (bix = 0 /\ bitNum = 8) => CallerPoint = Zero
               /\ (bix = ScalarLen) =>
                      toBasicPoint(CallerPoint)
                          = RefScalarMul(mk, toBasicPoint(EntryPoint))

C14_Witness ==
    /\ mPc = "ScalarMult" /\ ret = "inplace"
    /\ bix = 17 /\ bitNum = 3
    /\ mk = arg1 /\ mp = FullOrderPoint
    /\ toBasicPoint(out) \notin {RefNeutral, toBasicPoint(mp)}
    /\ toBasicPoint(tmpP) # toBasicPoint(mp)

-----------------------------------------------------------------------------
(* decodePoint against the curve equation. *)

(* -x^2 + y^2 = 1 + d x^2 y^2 (mod p) *)
OnCurve(x, y) ==
    LET xx == MulP(x, x)
        yy == MulP(y, y)
    IN  (yy - xx) % p25519 = (1 + MulP(d, MulP(xx, yy))) % p25519

(* u = y^2 - 1 and v = d y^2 + 1 of an encoding, and the two candidates    *)
(* for the square root of u / v: b = u v^3 (u v^7)^((p - 5) / 8), and      *)
(* b * sqrt(-1).                                                           *)
RefU(e) == (MulP(EncodedY(e), EncodedY(e)) - 1) % p25519

RefV(e) == (MulP(d, MulP(EncodedY(e), EncodedY(e))) + 1) % p25519

RefCandidates(e) ==
    LET u == RefU(e)
        v == RefV(e)
        b == MulP(MulP(u, Exp(v, 3, p25519)),
                  Exp(MulP(u, Exp(v, 7, p25519)), (p25519 - 5) \div 8, p25519))
    IN  {b, MulP(b, sqrtm1)}

(* C15: whenever decodePoint returns ok = true, the returned (x, y) is on  *)
(* the curve -x^2 + y^2 = 1 + d x^2 y^2 (mod p), y is the integer of the   *)
(* low 255 bits of the input (the low 15 bits here) and the low bit of x   *)
(* is the sign bit of the input; whenever neither candidate b for the      *)
(* square root has b^2 v = u (mod p), decodePoint returns ok = false.      *)
C15_DecodedOnCurve ==
    (cPc = "decoded") =>
        /\ cDec.ok =>
               /\ OnCurve(cDec.x, cDec.y)
               /\ cDec.y = EncodedY(cIn)
               /\ cDec.x % 2 = cIn[PublicKeySize] \div 128
        /\ (\A b \in RefCandidates(cIn) : MulP(MulP(b, b), RefV(cIn)) # RefU(cIn))
               => ~cDec.ok

C15_Witness ==
    /\ cPc = "decoded" /\ cDec.ok
    /\ cIn[PublicKeySize] >= 128
    /\ cDec.x % 2 = 1 /\ cDec.x \in 2..(p25519 - 1)
    /\ cDec.y \in 2..(p25519 - 2)

=============================================================================
